---- MODULE Spec2Model ----
(***************************************************************************)
(* Model of the tree widget of Ikken9/ki: the node forest (tree/item.rs),  *)
(* the flattener (tree/flatten.rs), the navigation state                  *)
(* (explorer/state.rs, ExplorerState), the render pass that computes the  *)
(* viewport window (tree.rs, Tree::render_ref) and the Explorer that      *)
(* builds the forest from a set of paths (explorer.rs, fs.rs).            *)
(*                                                                         *)
(* A TreeItem is a record [identifier, height, children]: height is what   *)
(* TreeItem::height() returns (the number of lines of its text), the only  *)
(* property of the text the window computation reads.  A Path is a         *)
(* sequence of identifiers (Vec<Identifier>).  Indices are 0-based as in   *)
(* the source; the sequences of TLA+ are 1-based, so visible[k] of the     *)
(* source is visible[k + 1] here.                                          *)
(***************************************************************************)
EXTENDS Integers, Sequences, FiniteSets, TLC

\* ------------------------------------------------------------------ bounds

\* Identifiers are 1..NumIds.
NumIds == 2
\* Nesting depth of the forests given to the flattener.
MaxDepth == 3
\* Size of the expansion sets given to the flattener.
MaxExpanded == 2
\* Top-level items of the forests given to the render pass.
MaxTop == 2
\* Children of the first top-level item of those forests.
MaxKids == 1
\* Item heights are 0..MaxItemHeight (an empty text has height 0).
MaxItemHeight == 2
\* Render areas are 0..MaxAreaHeight rows high.
MaxAreaHeight == 2
\* scroll_up / scroll_down are called with 0..MaxScroll lines (and usize::MAX).
MaxScroll == 2
\* add_entries is called with at most MaxBatch entries.
MaxBatch == 2

\* usize::MAX. TLC's integers are 32 bits wide, so the model takes the largest
\* of them; every other quantity of the model is far below it, and the source
\* only ever saturates at it.
usize_MAX == 2147483647

\* ------------------------------------------------------------------ helpers

Min(a, b) == IF a <= b THEN a ELSE b

\* usize::saturating_sub
saturating_sub(a, b) == IF a >= b THEN a - b ELSE 0

\* usize::saturating_add
saturating_add(a, b) == IF a >= usize_MAX - b THEN usize_MAX ELSE a + b

\* Iterator::position over a Vec: the 0-based index of the first element equal
\* to x, or -1 for None.
position(seq, x) ==
    IF \E k \in 1..Len(seq) : seq[k] = x
    THEN (CHOOSE k \in 1..Len(seq) : seq[k] = x /\ \A j \in 1..(k - 1) : seq[j] # x) - 1
    ELSE -1

\* ------------------------------------------------------------------ items

Ids == 1..NumIds

\* TreeItem::new_leaf
new_leaf(identifier, height) ==
    [identifier |-> identifier, height |-> height, children |-> <<>>]

\* The HashSet of the identifiers of a Vec of items
\* (iter().map(|item| &item.identifier).collect::<HashSet<_>>()).
identifiers_of(its) == {its[k].identifier : k \in 1..Len(its)}

\* TreeItem::new: Err(AlreadyExists) when the set of the children's
\* identifiers is smaller than the Vec of children, the item otherwise.
TreeItem_new(identifier, height, children) ==
    IF Cardinality(identifiers_of(children)) # Len(children)
    THEN [ok |-> FALSE, item |-> <<>>]
    ELSE [ok |-> TRUE,
          item |-> [identifier |-> identifier, height |-> height,
                    children |-> children]]

\* Tree::new: Err(AlreadyExists) on the same test of the items.
Tree_new(its) ==
    IF Cardinality(identifiers_of(its)) # Len(its)
    THEN [ok |-> FALSE, items |-> <<>>]
    ELSE [ok |-> TRUE, items |-> its]

\* Mutant of add_child: the child is pushed without a look at the identifiers
\* that are there.
add_child_unchecked(node, child) ==
    [ok |-> TRUE, item |-> [node EXCEPT !.children = Append(@, child)]]

\* TreeItem::add_child: the node after the call and whether it returned Ok.
add_child(node, child) ==
    LET existing == identifiers_of(node.children)
    IN  IF child.identifier \in existing
        THEN [ok |-> FALSE, item |-> node]
        ELSE [ok |-> TRUE, item |-> [node EXCEPT !.children = Append(@, child)]]

\* The identifiers of a sequence of items are pairwise distinct: what
\* TreeItem::new and Tree::new demand of the children / items they are given.
UniqueIdentifiers(seq) ==
    \A j, k \in 1..Len(seq) : seq[j].identifier = seq[k].identifier => j = k

\* The duplicate-free sequences of at most NumIds items drawn from nodes.
SiblingSeqs(nodes) ==
    {s \in UNION {[1..n -> nodes] : n \in 0..NumIds} : UniqueIdentifiers(s)}

\* The items of nesting depth at most d, all of height 1.
RECURSIVE ItemsUpTo(_)
ItemsUpTo(d) ==
    IF d = 0 THEN {}
    ELSE {[identifier |-> i, height |-> 1, children |-> c] :
              i \in Ids, c \in SiblingSeqs(ItemsUpTo(d - 1))}

\* TreeItem::example(), the forest of the tests: a..h are 1..8.
example ==
    <<new_leaf(1, 1),
      [identifier |-> 2, height |-> 1, children |->
          <<new_leaf(3, 1),
            [identifier |-> 4, height |-> 1, children |->
                <<new_leaf(5, 1), new_leaf(6, 1)>>],
            new_leaf(7, 1)>>],
      new_leaf(8, 1)>>

\* The forests the flattener is given: every shape up to MaxDepth, and the
\* example.
FlattenForests == SiblingSeqs(ItemsUpTo(MaxDepth)) \cup {example}

\* The paths of length 1..n over Ids.
RECURSIVE PathsUpTo(_)
PathsUpTo(n) ==
    IF n = 0 THEN {}
    ELSE PathsUpTo(n - 1) \cup [1..n -> Ids]

\* The expansion sets the flattener is given: the sets of at most MaxExpanded
\* Paths over Ids, and the sets the tests open on the example
\* (flatten_wrong_open_is_only_top_level, flatten_one_is_open, flatten_all_open).
ExpandedSets ==
    {E \in SUBSET PathsUpTo(MaxDepth) : Cardinality(E) <= MaxExpanded}
        \cup SUBSET {<<1>>, <<2>>, <<2, 4>>}

Heights == 0..MaxItemHeight

\* A forest of Len(hs) top-level items 1..Len(hs) of heights hs, the first
\* one with k leaf children of height 1.
TopLevel(hs, k) ==
    [i \in 1..Len(hs) |->
        [identifier |-> i,
         height |-> hs[i],
         children |-> IF i = 1 THEN [j \in 1..k |-> new_leaf(j, 1)] ELSE <<>>]]

\* The forests the render pass is given (the empty forest among them).
RenderForests ==
    {TopLevel(hs, k) : hs \in UNION {[1..n -> Heights] : n \in 0..MaxTop},
                       k \in 0..MaxKids}

\* The Paths select / click are called with: the empty Path, Paths of nodes
\* and Paths of no node.
SelectPaths == {<<>>, <<1>>, <<2>>, <<1, 1>>}

\* The Paths expand / collapse / toggle are called with: the empty Path and
\* <<1>>, which names a branch, a leaf or no node, depending on the forest.
ExpandPaths == {<<>>, <<1>>}

\* Rect
Rect(x, y, width, height) == [x |-> x, y |-> y, width |-> width, height |-> height]

\* The areas a render pass is given: zero width, zero height, and non-zero;
\* the highest one lies off the origin of the screen.
Areas ==
    {Rect(0, 0, 0, MaxAreaHeight)}
        \cup {Rect(0, 0, 1, h) : h \in 0..(MaxAreaHeight - 1)}
        \cup {Rect(1, 1, 1, MaxAreaHeight)}

ScrollLines == (0..MaxScroll) \cup {usize_MAX}

\* ------------------------------------------------------------------ flatten

\* Mutant of flatten: a node counts as open when its bare identifier, not its
\* Path, is in the set.
RECURSIVE flatten_bare_identifier(_, _, _)
flatten_bare_identifier(open_identifiers, its, current) ==
    IF its = <<>> THEN <<>>
    ELSE LET item == Head(its)
             child_identifier == Append(current, item.identifier)
             child_result ==
                 IF <<item.identifier>> \in open_identifiers
                 THEN flatten_bare_identifier(open_identifiers, item.children,
                                              child_identifier)
                 ELSE <<>>
         IN  <<[identifier |-> child_identifier, item |-> item]>>
                 \o child_result
                 \o flatten_bare_identifier(open_identifiers, Tail(its), current)

\* Mutant of flatten: the children of an open node are appended after its
\* siblings.
RECURSIVE flatten_children_last(_, _, _)
flatten_children_last(open_identifiers, its, current) ==
    IF its = <<>> THEN <<>>
    ELSE LET item == Head(its)
             child_identifier == Append(current, item.identifier)
             child_result ==
                 IF child_identifier \in open_identifiers
                 THEN flatten_children_last(open_identifiers, item.children,
                                            child_identifier)
                 ELSE <<>>
         IN  <<[identifier |-> child_identifier, item |-> item]>>
                 \o flatten_children_last(open_identifiers, Tail(its), current)
                 \o child_result

\* Mutant of flatten: every node counts as open.
RECURSIVE flatten_always_open(_, _, _)
flatten_always_open(open_identifiers, its, current) ==
    IF its = <<>> THEN <<>>
    ELSE LET item == Head(its)
             child_identifier == Append(current, item.identifier)
         IN  <<[identifier |-> child_identifier, item |-> item]>>
                 \o flatten_always_open(open_identifiers, item.children,
                                        child_identifier)
                 \o flatten_always_open(open_identifiers, Tail(its), current)

\* tree/flatten.rs: flatten. The for loop over items is the recursion on the
\* tail; each element is a Flattened {identifier, item}.
RECURSIVE flatten(_, _, _)
flatten(open_identifiers, its, current) ==
    IF its = <<>> THEN <<>>
    ELSE LET item == Head(its)
             child_identifier == Append(current, item.identifier)
             is_expanded == child_identifier \in open_identifiers
             child_result ==
                 IF is_expanded
                 THEN flatten(open_identifiers, item.children, child_identifier)
                 ELSE <<>>
         IN  <<[identifier |-> child_identifier, item |-> item]>>
                 \o child_result
                 \o flatten(open_identifiers, Tail(its), current)

\* Flattened::depth
depth(flattened) == Len(flattened.identifier) - 1

\* The identifiers of a flattened list, in order.
Identifiers(visible) == [k \in 1..Len(visible) |-> visible[k].identifier]

\* ------------------------------------------------------------------ state

VARIABLES
    selected,                   \* ExplorerState.selected
    expanded,                   \* ExplorerState.expanded
    offset,                     \* ExplorerState.offset
    last_area,                  \* ExplorerState.last_area
    last_biggest_index,         \* ExplorerState.last_biggest_index
    last_identifiers,           \* ExplorerState.last_identifiers
    last_rendered_identifiers,  \* ExplorerState.last_rendered_identifiers
    ensure_selected_in_view_on_next_render,
    plan,                       \* what the last render pass drew (its ret)
    flatten_ret,                \* the last call of ExplorerState::flatten:
                                \* the items it was given and what it returned
    tree_item,                  \* a TreeItem under construction
    forest,                     \* Tree.items of the last Tree::new that was Ok
    item_ret,                   \* the last constructor call and its Result
    entries,                    \* Explorer.entries
    explorer_tree,              \* Explorer.tree (its items)
    dirs,                       \* the entry source: the paths is_dir() holds of
    path_kind,                  \* the type T of the entries: PathBuf or SortablePath
    rebuild_ret                 \* the last Explorer call and its io::Result

vars == <<selected, expanded, offset, last_area, last_biggest_index,
          last_identifiers, last_rendered_identifiers,
          ensure_selected_in_view_on_next_render, plan, flatten_ret,
          tree_item, forest, item_ret, entries, explorer_tree, dirs, path_kind,
          rebuild_ret>>

\* The variables of the item constructors and of the Explorer.
item_vars == <<tree_item, forest, item_ret>>
explorer_vars == <<entries, explorer_tree, dirs, path_kind, rebuild_ret>>

\* The variables of the ExplorerState and of its render pass.
state_vars == <<selected, expanded, offset, last_area, last_biggest_index,
                last_identifiers, last_rendered_identifiers,
                ensure_selected_in_view_on_next_render, plan, flatten_ret>>

\* The ExplorerState as one value, for the operations below.
State ==
    [selected |-> selected,
     expanded |-> expanded,
     offset |-> offset,
     last_area |-> last_area,
     last_biggest_index |-> last_biggest_index,
     last_identifiers |-> last_identifiers,
     last_rendered_identifiers |-> last_rendered_identifiers,
     ensure_selected_in_view_on_next_render |-> ensure_selected_in_view_on_next_render]

\* ExplorerState::default()
DefaultState ==
    [selected |-> <<>>,
     expanded |-> {},
     offset |-> 0,
     last_area |-> Rect(0, 0, 0, 0),
     last_biggest_index |-> 0,
     last_identifiers |-> <<>>,
     last_rendered_identifiers |-> <<>>,
     ensure_selected_in_view_on_next_render |-> FALSE]

\* ------------------------------------------------------------------ navigation

\* ExplorerState::flatten
ExplorerState_flatten(s, its) == flatten(s.expanded, its, <<>>)

\* Every operation maps a state s to [state |-> the state after, ret |-> the
\* value returned].

\* Mutant of select: the flag is set only when the selection changes.
select_flag_when_changed(s, identifier) ==
    [state |-> [s EXCEPT !.ensure_selected_in_view_on_next_render =
                             @ \/ s.selected # identifier,
                         !.selected = identifier],
     ret |-> s.selected # identifier]

\* ExplorerState::select
select(s, identifier) ==
    [state |-> [s EXCEPT !.ensure_selected_in_view_on_next_render = TRUE,
                         !.selected = identifier],
     ret |-> s.selected # identifier]

\* Mutant of expand: the empty Path is inserted like any other.
expand_any(s, identifier) ==
    [state |-> [s EXCEPT !.expanded = @ \cup {identifier}],
     ret |-> identifier \notin s.expanded]

\* ExplorerState::expand (HashSet::insert returns whether it was absent)
expand(s, identifier) ==
    IF identifier = <<>>
    THEN [state |-> s, ret |-> FALSE]
    ELSE [state |-> [s EXCEPT !.expanded = @ \cup {identifier}],
          ret |-> identifier \notin s.expanded]

\* Mutant of collapse: the rows of the last pass are forgotten as well.
collapse_forgets_rows(s, identifier) ==
    [state |-> [s EXCEPT !.expanded = @ \ {identifier},
                         !.last_rendered_identifiers = <<>>],
     ret |-> identifier \in s.expanded]

\* ExplorerState::collapse (HashSet::remove returns whether it was present)
collapse(s, identifier) ==
    [state |-> [s EXCEPT !.expanded = @ \ {identifier}],
     ret |-> identifier \in s.expanded]

\* Mutant of toggle: a node that is expanded already is expanded again.
toggle_expand_only(s, identifier) ==
    IF identifier = <<>> THEN [state |-> s, ret |-> FALSE]
    ELSE expand(s, identifier)

\* ExplorerState::toggle
toggle(s, identifier) ==
    IF identifier = <<>> THEN [state |-> s, ret |-> FALSE]
    ELSE IF identifier \in s.expanded THEN collapse(s, identifier)
    ELSE expand(s, identifier)

\* Mutant of toggle_selected: toggle of the selection and nothing more.
toggle_selected_is_toggle(s) == toggle(s, s.selected)

\* ExplorerState::toggle_selected
toggle_selected(s) ==
    IF s.selected = <<>> THEN [state |-> s, ret |-> FALSE]
    ELSE LET s1 == [s EXCEPT !.ensure_selected_in_view_on_next_render = TRUE]
             was_expanded == s1.selected \in s1.expanded
         IN  IF was_expanded
             THEN [state |-> [s1 EXCEPT !.expanded = @ \ {s1.selected}], ret |-> TRUE]
             ELSE expand(s1, s1.selected)

\* Mutant of collapse_all: true is returned also when nothing was expanded.
collapse_all_returns_true(s) ==
    [state |-> [s EXCEPT !.expanded = {}], ret |-> TRUE]

\* ExplorerState::collapse_all
collapse_all(s) ==
    IF s.expanded = {} THEN [state |-> s, ret |-> FALSE]
    ELSE [state |-> [s EXCEPT !.expanded = {}], ret |-> TRUE]

\* ExplorerState::select_first
select_first(s) ==
    LET identifier == IF s.last_identifiers = <<>> THEN <<>>
                      ELSE s.last_identifiers[1]
    IN  select(s, identifier)

\* Mutant of select_last: the entry before the last one is selected.
select_last_but_one(s) ==
    LET new_identifier == IF Len(s.last_identifiers) < 2 THEN <<>>
                          ELSE s.last_identifiers[Len(s.last_identifiers) - 1]
    IN  select(s, new_identifier)

\* ExplorerState::select_last
select_last(s) ==
    LET new_identifier == IF s.last_identifiers = <<>> THEN <<>>
                          ELSE s.last_identifiers[Len(s.last_identifiers)]
    IN  select(s, new_identifier)

\* The index select_next moves to (lines 181-189).
select_next_pos(s) ==
    LET current_pos == position(s.last_identifiers, s.selected)
    IN  Min(Min(IF current_pos = -1 THEN 0 ELSE saturating_add(current_pos, 1),
                s.last_biggest_index),
            saturating_sub(Len(s.last_identifiers), 1))

\* Mutant of select_next: select is called also when the Path found is the
\* selection already.
select_next_always_selects(s) ==
    IF s.last_identifiers = <<>> THEN [state |-> s, ret |-> FALSE]
    ELSE LET new_pos == select_next_pos(s)
         IN  IF new_pos >= Len(s.last_identifiers)
             THEN [state |-> s, ret |-> FALSE]
             ELSE select(s, s.last_identifiers[new_pos + 1])

\* ExplorerState::select_next
select_next(s) ==
    IF s.last_identifiers = <<>> THEN [state |-> s, ret |-> FALSE]
    ELSE LET new_pos == select_next_pos(s)
         IN  IF new_pos >= Len(s.last_identifiers)
             THEN [state |-> s, ret |-> FALSE]
             ELSE LET new_identifier == s.last_identifiers[new_pos + 1]
                      changed == s.selected # new_identifier
                  IN  IF changed THEN select(s, new_identifier)
                      ELSE [state |-> s, ret |-> FALSE]

\* Mutant of select_prev_pos: a selection that is not found counts as index 0.
select_prev_pos_from_zero(s) ==
    LET current_pos == position(s.last_identifiers, s.selected)
    IN  Min(Min(IF current_pos = -1 THEN 0 ELSE saturating_sub(current_pos, 1),
                s.last_biggest_index),
            saturating_sub(Len(s.last_identifiers), 1))

\* The index select_prev moves to (lines 212-220).
select_prev_pos(s) ==
    LET current_pos == position(s.last_identifiers, s.selected)
    IN  Min(Min(IF current_pos = -1 THEN usize_MAX ELSE saturating_sub(current_pos, 1),
                s.last_biggest_index),
            saturating_sub(Len(s.last_identifiers), 1))

\* ExplorerState::select_prev
select_prev(s) ==
    IF s.last_identifiers = <<>> THEN [state |-> s, ret |-> FALSE]
    ELSE LET new_pos == select_prev_pos(s)
         IN  IF new_pos >= Len(s.last_identifiers)
             THEN [state |-> s, ret |-> FALSE]
             ELSE LET new_identifier == s.last_identifiers[new_pos + 1]
                      changed == s.selected # new_identifier
                  IN  IF changed THEN select(s, new_identifier)
                      ELSE [state |-> s, ret |-> FALSE]

\* ExplorerState::scroll_selected_into_view (returns nothing)
scroll_selected_into_view(s) ==
    [state |-> [s EXCEPT !.ensure_selected_in_view_on_next_render = TRUE],
     ret |-> FALSE]

\* ExplorerState::scroll_up
scroll_up(s, lines) ==
    LET before == s.offset
        after == saturating_sub(s.offset, lines)
    IN  [state |-> [s EXCEPT !.offset = after], ret |-> before # after]

\* ExplorerState::scroll_down
scroll_down(s, lines) ==
    LET before == s.offset
        after == Min(saturating_add(s.offset, lines), s.last_biggest_index)
    IN  [state |-> [s EXCEPT !.offset = after], ret |-> before # after]

\* Mutant of rendered_at: the entries are searched from the front, so the first
\* one that starts at or above the row is found.
rendered_at_first_hit(s, pos) ==
    LET a == s.last_area
        rows == s.last_rendered_identifiers
        hits == {k \in 1..Len(rows) : pos.y >= rows[k][1]}
    IN  IF ~(pos.x >= a.x /\ pos.x < a.x + a.width
             /\ pos.y >= a.y /\ pos.y < a.y + a.height)
        THEN <<>>
        ELSE IF hits = {} THEN <<>>
        ELSE rows[CHOOSE k \in hits : \A j \in hits : k <= j][2]

\* ExplorerState::rendered_at. Rect::contains(position) is
\* x <= position.x < x + width /\ y <= position.y < y + height. The result is
\* the Path found, or <<>> for None (no rendered Path is empty).
rendered_at(s, pos) ==
    LET a == s.last_area
        rows == s.last_rendered_identifiers
        hits == {k \in 1..Len(rows) : pos.y >= rows[k][1]}
    IN  IF ~(pos.x >= a.x /\ pos.x < a.x + a.width
             /\ pos.y >= a.y /\ pos.y < a.y + a.height)
        THEN <<>>
        ELSE IF hits = {} THEN <<>>
        ELSE rows[CHOOSE k \in hits : \A j \in hits : j <= k][2]

\* Mutant of click_at: a click selects what is under it, also when that is
\* selected already.
click_at_always_select(s, pos) ==
    LET identifier == rendered_at(s, pos)
    IN  IF identifier = <<>> THEN [state |-> s, ret |-> FALSE]
        ELSE select(s, identifier)

\* ExplorerState::click_at
click_at(s, pos) ==
    LET identifier == rendered_at(s, pos)
    IN  IF identifier = <<>> THEN [state |-> s, ret |-> FALSE]
        ELSE IF identifier = s.selected THEN toggle_selected(s)
        ELSE select(s, identifier)

\* ------------------------------------------------------------------ render

\* Mutant of grow: the item that no longer fits is taken as well.
RECURSIVE grow_past_height(_, _, _, _)
grow_past_height(visible, end, height, available_height) ==
    IF end >= Len(visible) \/ height >= available_height
    THEN [end |-> end, height |-> height]
    ELSE grow_past_height(visible, end + 1,
                          height + visible[end + 1].item.height, available_height)

\* Tree::render_ref, lines 172-184: grow the window forward from end while the
\* next item still fits.
RECURSIVE grow(_, _, _, _)
grow(visible, end, height, available_height) ==
    IF end >= Len(visible) THEN [end |-> end, height |-> height]
    ELSE LET item_height == visible[end + 1].item.height
         IN  IF height + item_height > available_height
             THEN [end |-> end, height |-> height]
             ELSE grow(visible, end + 1, height + item_height, available_height)

\* Tree::render_ref, lines 190-193: drop items from the start while the window
\* is too high. visible[start] past the end of the list is a panic.
RECURSIVE shrink(_, _, _, _)
shrink(visible, start, height, available_height) ==
    IF height <= available_height
    THEN [start |-> start, height |-> height, panic |-> FALSE]
    ELSE IF start >= Len(visible)
    THEN [start |-> start, height |-> height, panic |-> TRUE]
    ELSE shrink(visible, start + 1,
                saturating_sub(height, visible[start + 1].item.height),
                available_height)

\* Tree::render_ref, lines 187-194: extend the window to the index to ensure.
\* visible[end] past the end of the list is a panic.
RECURSIVE ensure_in_view(_, _, _, _, _, _)
ensure_in_view(visible, ensure_index_in_view, start, end, height, available_height) ==
    IF ensure_index_in_view < end
    THEN [start |-> start, end |-> end, height |-> height, panic |-> FALSE]
    ELSE IF end >= Len(visible)
    THEN [start |-> start, end |-> end, height |-> height, panic |-> TRUE]
    ELSE LET sh == shrink(visible, start, height + visible[end + 1].item.height,
                          available_height)
         IN  IF sh.panic
             THEN [start |-> sh.start, end |-> end + 1, height |-> sh.height,
                   panic |-> TRUE]
             ELSE ensure_in_view(visible, ensure_index_in_view, sh.start, end + 1,
                                 sh.height, available_height)

\* Mutant of window: the selection is brought into view whether or not the
\* ensure flag is set.
window_always_ensures(s, visible, available_height) ==
    LET ensure_index_in_view ==
            IF s.selected # <<>>
            THEN position(Identifiers(visible), s.selected)
            ELSE -1
        start0 == Min(s.offset, s.last_biggest_index)
        start1 == IF ensure_index_in_view # -1
                  THEN Min(start0, ensure_index_in_view) ELSE start0
        g == grow(visible, start1, 0, available_height)
    IN  IF ensure_index_in_view # -1
        THEN ensure_in_view(visible, ensure_index_in_view, start1, g.end, g.height,
                            available_height)
        ELSE [start |-> start1, end |-> g.end, height |-> g.height, panic |-> FALSE]

\* Tree::render_ref, lines 156-195: the window [start, end) of the pass;
\* ensure_index_in_view is -1 for None.
window(s, visible, available_height) ==
    LET ensure_index_in_view ==
            IF s.ensure_selected_in_view_on_next_render /\ s.selected # <<>>
            THEN position(Identifiers(visible), s.selected)
            ELSE -1
        start0 == Min(s.offset, s.last_biggest_index)
        start1 == IF ensure_index_in_view # -1
                  THEN Min(start0, ensure_index_in_view) ELSE start0
        g == grow(visible, start1, 0, available_height)
    IN  IF ensure_index_in_view # -1
        THEN ensure_in_view(visible, ensure_index_in_view, start1, g.end, g.height,
                            available_height)
        ELSE [start |-> start1, end |-> g.end, height |-> g.height, panic |-> FALSE]

\* The screen row of the k-th drawn item: area.y plus the heights of the items
\* drawn before it (current_height).
RowY(visible, area, from, k) ==
    LET RECURSIVE sum(_)
        sum(j) == IF j = 0 THEN 0 ELSE sum(j - 1) + visible[from + j].item.height
    IN  area.y + sum(k - 1)

\* Tree::render_ref, lines 217-286: the rows drawn, for
\* visible.iter().skip(state.offset).take(end - start).
rows_drawn(s, visible, area, skip, take) ==
    LET n == Min(take, saturating_sub(Len(visible), skip))
    IN  [k \in 1..n |->
            LET flattened == visible[skip + k]
            IN  [y |-> RowY(visible, area, skip, k),
                 height |-> flattened.item.height,
                 depth |-> depth(flattened),
                 identifier |-> flattened.identifier,
                 is_selected |-> s.selected = flattened.identifier,
                 symbol |-> IF flattened.item.children = <<>> THEN "no_children"
                            ELSE IF flattened.identifier \in s.expanded THEN "open"
                            ELSE "closed"]]

\* Tree::render_ref, lines 148-291: the pass in an area that has a row and a
\* column, from the state s1 left by lines 142-143.
render_visible(its, area, s1) ==
    LET visible == ExplorerState_flatten(s1, its)
        s2 == [s1 EXCEPT !.last_biggest_index = saturating_sub(Len(visible), 1)]
    IN  IF visible = <<>>
        THEN [state |-> s2,
              ret |-> [stage |-> "empty", start |-> 0, end |-> 0, rows |-> <<>>]]
        ELSE
        LET w == window(s2, visible, area.height)
        IN  IF w.panic
            THEN [state |-> s2,
                  ret |-> [stage |-> "panic", start |-> w.start, end |-> w.end,
                           rows |-> <<>>]]
            ELSE
            LET s3 == [s2 EXCEPT !.offset = w.start,
                                 !.ensure_selected_in_view_on_next_render = FALSE]
                rows == rows_drawn(s3, visible, area, s3.offset, w.end - w.start)
            IN  [state |->
                     [s3 EXCEPT
                         !.last_rendered_identifiers =
                             [k \in 1..Len(rows) |-> <<rows[k].y, rows[k].identifier>>],
                         !.last_identifiers = Identifiers(visible)],
                 ret |-> [stage |-> "drawn", start |-> w.start, end |-> w.end,
                          rows |-> rows]]

\* Mutant of render_ref: the pass goes on in an area without a row or a column.
render_ref_no_area_check(its, full_area, s) ==
    render_visible(its, full_area,
                   [s EXCEPT !.last_area = full_area,
                             !.last_rendered_identifiers = <<>>])

\* Tree::render_ref with no block (area = full_area) and no scrollbar. The
\* result is the state after the pass and its plan: where the pass returned
\* ("no_area", "empty", "panic" or "drawn"), the window and the rows drawn.
render_ref(its, full_area, s) ==
    LET area == full_area
        s1 == [s EXCEPT !.last_area = area, !.last_rendered_identifiers = <<>>]
    IN  IF area.width < 1 \/ area.height < 1
        THEN [state |-> s1,
              ret |-> [stage |-> "no_area", start |-> 0, end |-> 0, rows |-> <<>>]]
        ELSE render_visible(its, area, s1)

\* ------------------------------------------------------------------ actions

\* The positions click_at is called with: the cells of the areas, and cells
\* beside, above and below them.
Positions == {[x |-> x, y |-> y] : x \in 0..1, y \in 0..MaxAreaHeight}

\* The plan before any render pass.
NoPlan == [stage |-> "none", start |-> 0, end |-> 0, rows |-> <<>>]

\* No item is under construction.
NoItems ==
    /\ tree_item = <<>>
    /\ forest = <<>>
    /\ item_ret = [op |-> "none", result |-> "none"]

\* No Explorer is there.
NoExplorer ==
    /\ entries = {}
    /\ explorer_tree = <<>>
    /\ dirs = {}
    /\ path_kind = "PathBuf"
    /\ rebuild_ret = [op |-> "none", result |-> "none"]

\* The step that leaves the ExplorerState s.
Becomes(s) ==
    /\ selected' = s.selected
    /\ expanded' = s.expanded
    /\ offset' = s.offset
    /\ last_area' = s.last_area
    /\ last_biggest_index' = s.last_biggest_index
    /\ last_identifiers' = s.last_identifiers
    /\ last_rendered_identifiers' = s.last_rendered_identifiers
    /\ ensure_selected_in_view_on_next_render' =
           s.ensure_selected_in_view_on_next_render

Init ==
    /\ selected = DefaultState.selected
    /\ expanded = DefaultState.expanded
    /\ offset = DefaultState.offset
    /\ last_area = DefaultState.last_area
    /\ last_biggest_index = DefaultState.last_biggest_index
    /\ last_identifiers = DefaultState.last_identifiers
    /\ last_rendered_identifiers = DefaultState.last_rendered_identifiers
    /\ ensure_selected_in_view_on_next_render =
           DefaultState.ensure_selected_in_view_on_next_render
    /\ plan = NoPlan
    /\ flatten_ret = <<>>
    /\ NoItems
    /\ NoExplorer

\* A render pass of a Tree widget built from any forest, in any area.
Render ==
    \E tree \in RenderForests, area \in Areas :
        LET r == render_ref(tree, area, State)
        IN  /\ Becomes(r.state)
            /\ plan' = r.ret
            /\ UNCHANGED <<flatten_ret, item_vars, explorer_vars>>

Select ==
    \E identifier \in SelectPaths :
        Becomes(select(State, identifier).state)
            /\ UNCHANGED <<plan, flatten_ret, item_vars, explorer_vars>>

Expand ==
    \E identifier \in ExpandPaths :
        Becomes(expand(State, identifier).state)
            /\ UNCHANGED <<plan, flatten_ret, item_vars, explorer_vars>>

Collapse ==
    \E identifier \in ExpandPaths :
        Becomes(collapse(State, identifier).state)
            /\ UNCHANGED <<plan, flatten_ret, item_vars, explorer_vars>>

Toggle ==
    \E identifier \in ExpandPaths :
        Becomes(toggle(State, identifier).state)
            /\ UNCHANGED <<plan, flatten_ret, item_vars, explorer_vars>>

ToggleSelected ==
    Becomes(toggle_selected(State).state)
            /\ UNCHANGED <<plan, flatten_ret, item_vars, explorer_vars>>

CollapseAll ==
    Becomes(collapse_all(State).state)
            /\ UNCHANGED <<plan, flatten_ret, item_vars, explorer_vars>>

SelectFirst ==
    Becomes(select_first(State).state)
            /\ UNCHANGED <<plan, flatten_ret, item_vars, explorer_vars>>

SelectLast ==
    Becomes(select_last(State).state)
            /\ UNCHANGED <<plan, flatten_ret, item_vars, explorer_vars>>

SelectNext ==
    Becomes(select_next(State).state)
            /\ UNCHANGED <<plan, flatten_ret, item_vars, explorer_vars>>

SelectPrev ==
    Becomes(select_prev(State).state)
            /\ UNCHANGED <<plan, flatten_ret, item_vars, explorer_vars>>

ClickAt ==
    \E pos \in Positions :
        Becomes(click_at(State, pos).state)
            /\ UNCHANGED <<plan, flatten_ret, item_vars, explorer_vars>>

ScrollSelectedIntoView ==
    Becomes(scroll_selected_into_view(State).state)
            /\ UNCHANGED <<plan, flatten_ret, item_vars, explorer_vars>>

ScrollUp ==
    \E lines \in ScrollLines :
        Becomes(scroll_up(State, lines).state)
            /\ UNCHANGED <<plan, flatten_ret, item_vars, explorer_vars>>

ScrollDown ==
    \E lines \in ScrollLines :
        Becomes(scroll_down(State, lines).state)
            /\ UNCHANGED <<plan, flatten_ret, item_vars, explorer_vars>>

Next ==
    \/ Render
    \/ Select
    \/ Expand
    \/ Collapse
    \/ Toggle
    \/ ToggleSelected
    \/ CollapseAll
    \/ SelectFirst
    \/ SelectLast
    \/ SelectNext
    \/ SelectPrev
    \/ ClickAt
    \/ ScrollSelectedIntoView
    \/ ScrollUp
    \/ ScrollDown

Spec == Init /\ [][Next]_vars

\* The flattener alone: any expansion set in the state, and one call of
\* ExplorerState::flatten with any forest.
InitFlatten ==
    /\ expanded \in ExpandedSets
    /\ selected = DefaultState.selected
    /\ offset = DefaultState.offset
    /\ last_area = DefaultState.last_area
    /\ last_biggest_index = DefaultState.last_biggest_index
    /\ last_identifiers = DefaultState.last_identifiers
    /\ last_rendered_identifiers = DefaultState.last_rendered_identifiers
    /\ ensure_selected_in_view_on_next_render =
           DefaultState.ensure_selected_in_view_on_next_render
    /\ plan = NoPlan
    /\ flatten_ret = <<>>
    /\ NoItems
    /\ NoExplorer

Flatten ==
    /\ flatten_ret = <<>>
    /\ \E its \in FlattenForests :
        /\ flatten_ret' = <<[items |-> its, visible |-> ExplorerState_flatten(State, its)]>>
        /\ UNCHANGED <<selected, expanded, offset, last_area, last_biggest_index,
                       last_identifiers, last_rendered_identifiers,
                       ensure_selected_in_view_on_next_render, plan,
                       item_vars, explorer_vars>>

NextFlatten == Flatten

SpecFlatten == InitFlatten /\ [][NextFlatten]_vars

\* The item constructors alone: one TreeItem is built up by TreeItem::new_leaf,
\* TreeItem::new and TreeItem::add_child, and given to Tree::new.

\* The nesting depth of an item (1 for a leaf).
RECURSIVE ItemDepth(_)
ItemDepth(it) ==
    LET RECURSIVE deepest(_)
        deepest(k) ==
            IF k = 0 THEN 0
            ELSE LET d == ItemDepth(it.children[k])
                     rest == deepest(k - 1)
                 IN  IF d > rest THEN d ELSE rest
    IN  1 + deepest(Len(it.children))

\* The items a constructor is given as children: fresh leaves, and a clone of
\* the item built so far while the result stays within MaxDepth.
Candidates(node) ==
    {new_leaf(i, 1) : i \in Ids}
        \cup (IF ItemDepth(node) < MaxDepth THEN {node} ELSE {})

\* The Vecs of children a constructor is given: up to NumIds + 1 candidates,
\* so that some of them repeat an identifier.
ChildSeqs(node) == UNION {[1..n -> Candidates(node)] : n \in 0..(NumIds + 1)}

\* The Result of a constructor call, as the state keeps it.
Result(op, ok) == [op |-> op, result |-> IF ok THEN "Ok" ELSE "AlreadyExists"]

InitItems ==
    /\ tree_item \in {new_leaf(i, 1) : i \in Ids}
    /\ forest = <<>>
    /\ item_ret = Result("new_leaf", TRUE)
    /\ selected = DefaultState.selected
    /\ expanded = DefaultState.expanded
    /\ offset = DefaultState.offset
    /\ last_area = DefaultState.last_area
    /\ last_biggest_index = DefaultState.last_biggest_index
    /\ last_identifiers = DefaultState.last_identifiers
    /\ last_rendered_identifiers = DefaultState.last_rendered_identifiers
    /\ ensure_selected_in_view_on_next_render =
           DefaultState.ensure_selected_in_view_on_next_render
    /\ plan = NoPlan
    /\ flatten_ret = <<>>
    /\ NoExplorer

ItemNewLeaf ==
    \E identifier \in Ids :
        /\ tree_item' = new_leaf(identifier, 1)
        /\ item_ret' = Result("new_leaf", TRUE)
        /\ UNCHANGED <<forest, state_vars, explorer_vars>>

ItemNew ==
    \E identifier \in Ids, children \in ChildSeqs(tree_item) :
        LET r == TreeItem_new(identifier, 1, children)
        IN  /\ tree_item' = IF r.ok THEN r.item ELSE tree_item
            /\ item_ret' = Result("new", r.ok)
            /\ UNCHANGED <<forest, state_vars, explorer_vars>>

ItemAddChild ==
    \E child \in Candidates(tree_item) :
        LET r == add_child(tree_item, child)
        IN  /\ tree_item' = r.item
            /\ item_ret' = Result("add_child", r.ok)
            /\ UNCHANGED <<forest, state_vars, explorer_vars>>

TreeNew ==
    \E its \in ChildSeqs(tree_item) :
        LET r == Tree_new(its)
        IN  /\ forest' = IF r.ok THEN r.items ELSE forest
            /\ item_ret' = Result("Tree::new", r.ok)
            /\ UNCHANGED <<tree_item, state_vars, explorer_vars>>

NextItems ==
    \/ ItemNewLeaf
    \/ ItemNew
    \/ ItemAddChild
    \/ TreeNew

SpecItems == InitItems /\ [][NextItems]_vars

\* ------------------------------------------------------------------ explorer
\* Explorer (explorer.rs) over entries of type T: PathLike (fs.rs). A path is
\* the sequence of its components, each a number; the identifier of a built
\* item is the full path of its entry.

\* The component "..": a path that ends in it has no file_name().
ParentDir == 0

\* Explorer.root_path
root_path == <<1>>

\* The paths entries are drawn from: children and grandchildren of the root,
\* a child that ends in "..", and a path outside the root.
EntryPaths ==
    {<<1, 1>>, <<1, 2>>, <<1, 1, 1>>, <<1, 1, 2>>, <<1, 2, 1>>,
     <<1, ParentDir>>, <<2, 1>>}

\* What the entry source can say is a directory.
DirSets == SUBSET {<<1, 1>>, <<1, 2>>, <<1, 1, 1>>}

\* The two implementations of PathLike.
PathKinds == {"PathBuf", "SortablePath"}

\* Path::parent: None for the empty path.
parent(path) ==
    IF path = <<>> THEN <<"None">>
    ELSE <<"Some", SubSeq(path, 1, Len(path) - 1)>>

\* Path::strip_prefix: the components after base, or an error.
strip_prefix(path, base) ==
    IF Len(base) <= Len(path) /\ SubSeq(path, 1, Len(base)) = base
    THEN <<"Ok", SubSeq(path, Len(base) + 1, Len(path))>>
    ELSE <<"Err">>

\* Path::file_name: None when the path ends in "..".
file_name(path) ==
    IF path = <<>> \/ path[Len(path)] = ParentDir THEN <<"None">>
    ELSE <<"Some", path[Len(path)]>>

\* PathLike::is_dir (fs::metadata of the path)
is_dir(path) == path \in dirs

\* PathLike::join
join(path, component) == Append(path, component)

\* Ord of PathBuf: the components compared in order ("..", a ParentDir
\* component, is below every normal one).
PathBuf_lt(a, b) ==
    \E n \in 0..Min(Len(a), Len(b)) :
        /\ \A j \in 1..n : a[j] = b[j]
        /\ \/ n = Len(a) /\ n < Len(b)
           \/ n < Len(a) /\ n < Len(b) /\ a[n + 1] < b[n + 1]

\* Ord of T, a.cmp(b) = Less: for SortablePath directories come before files.
cmp_lt(a, b) ==
    IF path_kind = "SortablePath"
    THEN \/ is_dir(a) /\ ~is_dir(b)
         \/ is_dir(a) = is_dir(b) /\ PathBuf_lt(a, b)
    ELSE PathBuf_lt(a, b)

\* BTreeSet::iter: the elements in ascending order.
RECURSIVE iter(_)
iter(set) ==
    IF set = {} THEN <<>>
    ELSE LET first == CHOOSE a \in set : \A b \in set \ {a} : cmp_lt(a, b)
         IN  <<first>> \o iter(set \ {first})

\* The comparator of children.sort_by in build_directory_tree, a before b:
\* an item with children before one without, else by identifier.
sort_lt(a, b) ==
    LET a_is_dir == a.children # <<>>
        b_is_dir == b.children # <<>>
    IN  IF a_is_dir /\ ~b_is_dir THEN TRUE
        ELSE IF ~a_is_dir /\ b_is_dir THEN FALSE
        ELSE cmp_lt(a.identifier, b.identifier)

\* children.sort_by(..): the items in the order of the comparator (their
\* identifiers differ, so the order is one).
sort_by(children) ==
    LET RECURSIVE sorted(_)
        sorted(set) ==
            IF set = {} THEN <<>>
            ELSE LET first == CHOOSE a \in set : \A b \in set \ {a} : sort_lt(a, b)
                 IN  <<first>> \o sorted(set \ {first})
    IN  sorted({children[k] : k \in 1..Len(children)})

\* The height of the Text made of a name: no line for the empty string.
text_height(name) == IF name = "" THEN 0 ELSE 1

\* build_directory_tree(root_path, current_path, entries): the children are
\* the entries one component below current_path, directories built in turn,
\* then sorted; the result is that of TreeItem::new.
RECURSIVE build_directory_tree(_, _)
build_directory_tree(current_path, es) ==
    LET paths == iter(es)
        RECURSIVE push(_)
        push(k) ==
            IF k = 0 THEN [ok |-> TRUE, children |-> <<>>]
            ELSE LET before == push(k - 1)
                     path == paths[k]
                     rel_path == strip_prefix(path, current_path)
                 IN  IF ~before.ok THEN before
                     ELSE IF rel_path[1] = "Ok" /\ Len(rel_path[2]) = 1
                     THEN LET full_path == join(current_path, rel_path[2][1])
                          IN  IF is_dir(path)
                              THEN LET child == build_directory_tree(full_path, es)
                                   IN  IF child.ok
                                       THEN [ok |-> TRUE,
                                             children |-> Append(before.children, child.item)]
                                       ELSE [ok |-> FALSE, children |-> <<>>]
                              ELSE [ok |-> TRUE,
                                    children |-> Append(before.children,
                                                        new_leaf(full_path, 1))]
                     ELSE before
        pushed == push(Len(paths))
        display_name ==
            IF current_path = root_path \/ file_name(current_path)[1] = "None"
            THEN "" ELSE "name"
    IN  IF ~pushed.ok THEN [ok |-> FALSE, item |-> <<>>]
        ELSE TreeItem_new(current_path, text_height(display_name),
                          sort_by(pushed.children))

\* The Explorer as one value.
Explorer == [entries |-> entries, tree |-> explorer_tree]

\* Explorer::new: no entries and the empty tree.
Explorer_new == [entries |-> {}, tree |-> Tree_new(<<>>).items]

\* Explorer::rebuild_tree: the entries whose parent is the root, in the order
\* of the set, each a built directory or a leaf; the first error ends the
\* call before the tree is assigned.
rebuild_tree(e) ==
    LET paths == SelectSeq(iter(e.entries),
                           LAMBDA p : parent(p) = <<"Some", root_path>>)
        RECURSIVE collect(_)
        collect(k) ==
            IF k = 0 THEN [ret |-> "Ok", children |-> <<>>]
            ELSE LET before == collect(k - 1)
                     path == paths[k]
                 IN  IF before.ret # "Ok" THEN before
                     ELSE IF is_dir(path)
                     THEN LET built == build_directory_tree(path, e.entries)
                          IN  IF built.ok
                              THEN [ret |-> "Ok",
                                    children |-> Append(before.children, built.item)]
                              ELSE [ret |-> "AlreadyExists", children |-> <<>>]
                     ELSE IF file_name(path)[1] = "None"
                     THEN [ret |-> "InvalidData", children |-> <<>>]
                     ELSE [ret |-> "Ok",
                           children |-> Append(before.children, new_leaf(path, 1))]
        collected == collect(Len(paths))
        new_tree == Tree_new(collected.children)
    IN  IF collected.ret # "Ok" THEN [state |-> e, ret |-> collected.ret]
        ELSE IF ~new_tree.ok THEN [state |-> e, ret |-> "AlreadyExists"]
        ELSE [state |-> [e EXCEPT !.tree = new_tree.items], ret |-> "Ok"]

\* Explorer::add_entry (returns nothing)
add_entry(e, path) ==
    [state |-> [e EXCEPT !.entries = @ \cup {path}], ret |-> "Ok"]

\* Explorer::add_entries
add_entries(e, es) == rebuild_tree([e EXCEPT !.entries = @ \cup es])

\* The collections add_entries is called with.
EntryBatches == {es \in SUBSET EntryPaths : Cardinality(es) <= MaxBatch}

\* The step that leaves the Explorer e and the result of the call.
ExplorerBecomes(op, r) ==
    /\ entries' = r.state.entries
    /\ explorer_tree' = r.state.tree
    /\ rebuild_ret' = [op |-> op, result |-> r.ret]

\* Explorer::new, over any entry source and either type of entry.
InitExplorer ==
    /\ entries = Explorer_new.entries
    /\ explorer_tree = Explorer_new.tree
    /\ dirs \in DirSets
    /\ path_kind \in PathKinds
    /\ rebuild_ret = [op |-> "new", result |-> "Ok"]
    /\ selected = DefaultState.selected
    /\ expanded = DefaultState.expanded
    /\ offset = DefaultState.offset
    /\ last_area = DefaultState.last_area
    /\ last_biggest_index = DefaultState.last_biggest_index
    /\ last_identifiers = DefaultState.last_identifiers
    /\ last_rendered_identifiers = DefaultState.last_rendered_identifiers
    /\ ensure_selected_in_view_on_next_render =
           DefaultState.ensure_selected_in_view_on_next_render
    /\ plan = NoPlan
    /\ flatten_ret = <<>>
    /\ NoItems

AddEntry ==
    \E path \in EntryPaths :
        ExplorerBecomes("add_entry", add_entry(Explorer, path))
            /\ UNCHANGED <<dirs, path_kind, state_vars, item_vars>>

AddEntries ==
    \E es \in EntryBatches :
        ExplorerBecomes("add_entries", add_entries(Explorer, es))
            /\ UNCHANGED <<dirs, path_kind, state_vars, item_vars>>

RebuildTree ==
    ExplorerBecomes("rebuild_tree", rebuild_tree(Explorer))
        /\ UNCHANGED <<dirs, path_kind, state_vars, item_vars>>

NextExplorer ==
    \/ AddEntry
    \/ AddEntries
    \/ RebuildTree

SpecExplorer == InitExplorer /\ [][NextExplorer]_vars

\* ------------------------------------------------------------------ the forest, read directly
\* What the claims say of a forest, stated on the forest itself and not
\* through flatten.

\* The Paths of all nodes of a forest.
RECURSIVE NodePaths(_, _)
NodePaths(its, current) ==
    UNION {{Append(current, its[k].identifier)}
               \cup NodePaths(its[k].children, Append(current, its[k].identifier)) :
           k \in 1..Len(its)}

\* The index, among its siblings, of the item named id.
IndexOf(its, id) == CHOOSE k \in 1..Len(its) : its[k].identifier = id

\* The node a Path of the forest names.
RECURSIVE NodeAt(_, _)
NodeAt(its, path) ==
    LET item == its[IndexOf(its, Head(path))]
    IN  IF Len(path) = 1 THEN item ELSE NodeAt(item.children, Tail(path))

\* The sibling indices along a Path of the forest.
RECURSIVE IndexPath(_, _)
IndexPath(its, path) ==
    IF path = <<>> THEN <<>>
    ELSE LET k == IndexOf(its, Head(path))
         IN  <<k>> \o IndexPath(its[k].children, Tail(path))

\* Depth-first pre-order on index paths: an ancestor before its descendants,
\* and otherwise the earlier sibling's subtree first.
PreOrderBefore(a, b) ==
    \E n \in 0..Min(Len(a), Len(b)) :
        /\ \A j \in 1..n : a[j] = b[j]
        /\ \/ n = Len(a) /\ n < Len(b)
           \/ n < Len(a) /\ n < Len(b) /\ a[n + 1] < b[n + 1]

\* The Paths of the proper ancestors of a Path.
Ancestors(path) == {SubSeq(path, 1, k) : k \in 1..(Len(path) - 1)}

\* ------------------------------------------------------------------ claims: flatten

\* The forest of the last flatten call, what it returned, and the Paths in it.
CallItems == flatten_ret[1].items
CallVisible == flatten_ret[1].visible
CallShown == {CallVisible[k].identifier : k \in 1..Len(CallVisible)}

\* An entry of the expansion set that can show nothing: it names no node, or a
\* leaf, or a node one of whose ancestors is not expanded.
AddsNothing(q, its, E) ==
    \/ q \notin NodePaths(its, <<>>)
    \/ NodeAt(its, q).children = <<>>
    \/ ~(Ancestors(q) \subseteq E)

\* C2: a node is in the flattened list iff it is top-level or the Path of every
\* proper ancestor is in the expansion set (each entry carrying the node its
\* Path names); so an entry of the set that names a leaf, no node, or a node
\* with a non-expanded ancestor changes nothing when it is left out.
C2_VisibleIffAncestorsExpanded ==
    flatten_ret # <<>> =>
        /\ CallShown = {p \in NodePaths(CallItems, <<>>) : Ancestors(p) \subseteq expanded}
        /\ \A k \in 1..Len(CallVisible) :
               CallVisible[k].item = NodeAt(CallItems, CallVisible[k].identifier)
        /\ \A q \in expanded :
               AddsNothing(q, CallItems, expanded)
                   => flatten(expanded \ {q}, CallItems, <<>>) = CallVisible

\* C2 witness: a call that shows a child of an open node while the set also
\* holds the Path of a branch whose parent is not open, so that the children
\* of that branch stay hidden.
C2_Witness ==
    /\ flatten_ret # <<>>
    /\ \E p \in CallShown : Len(p) = 2
    /\ \E q \in expanded \cap NodePaths(CallItems, <<>>) :
           /\ NodeAt(CallItems, q).children # <<>>
           /\ ~(Ancestors(q) \subseteq expanded)
           /\ q \notin CallShown

\* C3: the flattened list is the depth-first pre-order of the visible nodes:
\* no Path twice, entries ascending in pre-order of the forest, and the depth
\* of an entry is len(Path) - 1, the number of its ancestors; on the example
\* with [b] and [b, d] open it is a..h with depths 0,0,1,1,2,2,1,0.
C3_PreOrderAndDepth ==
    flatten_ret # <<>> =>
        /\ \A j, k \in 1..Len(CallVisible) :
               j < k => /\ CallVisible[j].identifier # CallVisible[k].identifier
                        /\ PreOrderBefore(IndexPath(CallItems, CallVisible[j].identifier),
                                          IndexPath(CallItems, CallVisible[k].identifier))
        /\ \A k \in 1..Len(CallVisible) :
               /\ depth(CallVisible[k]) = Len(CallVisible[k].identifier) - 1
               /\ depth(CallVisible[k]) = Cardinality(Ancestors(CallVisible[k].identifier))
        /\ (CallItems = example /\ expanded = {<<2>>, <<2, 4>>}) =>
               /\ Identifiers(CallVisible) =
                      <<(<<1>>), <<2>>, <<2, 3>>, <<2, 4>>, <<2, 4, 5>>, <<2, 4, 6>>,
                        <<2, 7>>, <<8>>>>
               /\ [k \in 1..Len(CallVisible) |-> depth(CallVisible[k])]
                      = <<0, 0, 1, 1, 2, 2, 1, 0>>

\* C3 witness: the example flattened with [b] and [b, d] open, all eight nodes
\* shown.
C3_Witness ==
    /\ flatten_ret # <<>>
    /\ CallItems = example
    /\ expanded = {<<2>>, <<2, 4>>}
    /\ Len(CallVisible) = Cardinality(NodePaths(example, <<>>))

\* C4: with the empty expansion set the flattened list is exactly the
\* top-level nodes, each once, in the forest's order, all at depth 0.
C4_NothingOpenIsTopLevel ==
    (flatten_ret # <<>> /\ expanded = {}) =>
        /\ Len(CallVisible) = Len(CallItems)
        /\ \A k \in 1..Len(CallItems) :
               /\ CallVisible[k].identifier = <<CallItems[k].identifier>>
               /\ CallVisible[k].item = CallItems[k]
               /\ depth(CallVisible[k]) = 0

\* C4 witness: nothing open, and a forest of two top-level nodes that has
\* grandchildren to hide.
C4_Witness ==
    /\ flatten_ret # <<>>
    /\ expanded = {}
    /\ Len(CallItems) = 2
    /\ \E p \in NodePaths(CallItems, <<>>) : Len(p) = 3
    /\ Len(CallVisible) = 2

\* ------------------------------------------------------------------ claims: render pass

\* The areas with a row and a column, and those without.
NonZeroAreas == {a \in Areas : a.width >= 1 /\ a.height >= 1}
ZeroAreas == Areas \ NonZeroAreas

\* The elements of a sequence.
Range(seq) == {seq[k] : k \in 1..Len(seq)}

\* The 0-based indices at which a flattened list holds the Path.
IndicesOf(visible, path) == {k - 1 : k \in {j \in 1..Len(visible) : visible[j].identifier = path}}

\* C1: a render pass that starts with ensure_selected_in_view_on_next_render
\* set, in a non-zero area, with the selected Path at index i of the flattened
\* list, computes a window with start <= i < end.
C1_SelectedInWindow ==
    \A tree \in RenderForests, area \in NonZeroAreas :
        LET visible == flatten(expanded, tree, <<>>)
            r == render_ref(tree, area, State)
        IN  ensure_selected_in_view_on_next_render =>
                \A i \in IndicesOf(visible, selected) :
                    r.ret.start <= i /\ i < r.ret.end

\* Lemma: the window holds the selected index when the selected item is not
\* higher than the area.
Lemma_SelectedInWindowIfItFits ==
    \A tree \in RenderForests, area \in NonZeroAreas :
        LET visible == flatten(expanded, tree, <<>>)
            r == render_ref(tree, area, State)
        IN  ensure_selected_in_view_on_next_render =>
                \A i \in IndicesOf(visible, selected) :
                    visible[i + 1].item.height <= area.height
                        => r.ret.start <= i /\ i < r.ret.end

\* C8: after a render pass in a non-zero area with a non-empty flattened list
\* the offset is the window start, lies in 0..len(visible) - 1, which is
\* last_biggest_index, and the ensure flag is cleared.
C8_OffsetIsStartInRange ==
    \A tree \in RenderForests, area \in NonZeroAreas :
        LET visible == flatten(expanded, tree, <<>>)
            r == render_ref(tree, area, State)
        IN  visible # <<>> =>
                /\ r.state.offset = r.ret.start
                /\ r.state.offset \in 0..(Len(visible) - 1)
                /\ r.state.last_biggest_index = Len(visible) - 1
                /\ ~r.state.ensure_selected_in_view_on_next_render

\* Lemma: the offset after such a pass is the window start and at most
\* len(visible); it is len(visible) only past a selected last item that is
\* higher than the area.
Lemma_OffsetIsStartAtMostLen ==
    \A tree \in RenderForests, area \in NonZeroAreas :
        LET visible == flatten(expanded, tree, <<>>)
            r == render_ref(tree, area, State)
        IN  visible # <<>> =>
                /\ r.state.offset = r.ret.start
                /\ r.state.offset \in 0..Len(visible)
                /\ r.state.last_biggest_index = Len(visible) - 1
                /\ ~r.state.ensure_selected_in_view_on_next_render
                /\ r.state.offset = Len(visible) =>
                       /\ ensure_selected_in_view_on_next_render
                       /\ selected = visible[Len(visible)].identifier
                       /\ visible[Len(visible)].item.height > area.height

\* C9: a render pass in an area of width 0 or height 0 returns without a
\* panic, draws no row, empties last_rendered_identifiers and leaves offset,
\* selected, expanded, last_identifiers and last_biggest_index as they were.
C9_ZeroAreaIsInert ==
    \A tree \in RenderForests, area \in ZeroAreas :
        LET r == render_ref(tree, area, State)
        IN  /\ r.ret.stage = "no_area"
            /\ r.ret.rows = <<>>
            /\ r.state.last_rendered_identifiers = <<>>
            /\ r.state.offset = offset
            /\ r.state.selected = selected
            /\ r.state.expanded = expanded
            /\ r.state.last_identifiers = last_identifiers
            /\ r.state.last_biggest_index = last_biggest_index

\* C9 witness: a pass in a zero area has run and left an offset that is out of
\* range, and the list of the frame before.
C9_Witness ==
    /\ plan.stage = "no_area"
    /\ last_rendered_identifiers = <<>>
    /\ last_identifiers # <<>>
    /\ offset > last_biggest_index

\* C10: after a render pass whose flattened list is empty both
\* last_rendered_identifiers and last_identifiers are empty, so select_first,
\* select_last, select_next and select_prev select no Path of an earlier forest.
C10_EmptyListClearsCaches ==
    \A tree \in RenderForests, area \in NonZeroAreas :
        LET r == render_ref(tree, area, State)
        IN  flatten(expanded, tree, <<>>) = <<>> =>
                /\ r.state.last_rendered_identifiers = <<>>
                /\ r.state.last_identifiers = <<>>
                /\ select_first(r.state).state.selected = <<>>
                /\ select_last(r.state).state.selected = <<>>
                /\ select_next(r.state).state.selected = r.state.selected
                /\ select_prev(r.state).state.selected = r.state.selected

\* ------------------------------------------------------------------ claims: navigation

\* The index both select_next and select_prev clamp to.
ClampedLast == Min(last_biggest_index, Len(last_identifiers) - 1)

\* C5: with selected at index k of last_identifiers, select_next then
\* select_prev returns to the selection when k + 1 <= min(last_biggest_index,
\* len - 1), and select_prev then select_next does when k >= 1.
C5_NextPrevRoundTrip ==
    \A k \in IndicesOf([j \in 1..Len(last_identifiers) |->
                           [identifier |-> last_identifiers[j]]], selected) :
        /\ k + 1 <= ClampedLast
               => select_prev(select_next(State).state).state.selected = selected
        /\ k >= 1
               => select_next(select_prev(State).state).state.selected = selected

\* Lemma: the round trips hold when the clamp is not hit: next then prev when
\* k + 1 <= min(last_biggest_index, len - 1), prev then next when
\* 1 <= k <= last_biggest_index.
Lemma_RoundTripWithinClamp ==
    \A k \in IndicesOf([j \in 1..Len(last_identifiers) |->
                           [identifier |-> last_identifiers[j]]], selected) :
        /\ k + 1 <= ClampedLast
               => select_prev(select_next(State).state).state.selected = selected
        /\ (k >= 1 /\ k <= last_biggest_index)
               => select_next(select_prev(State).state).state.selected = selected

\* C6: when last_identifiers is not empty and selected is none of its entries,
\* select_next selects the entry at index 0 and select_prev the entry at index
\* min(last_biggest_index, len - 1).
C6_NotFoundJumps ==
    (last_identifiers # <<>> /\ selected \notin Range(last_identifiers)) =>
        /\ select_next(State).state.selected = last_identifiers[1]
        /\ select_next(State).ret
        /\ select_prev(State).state.selected = last_identifiers[ClampedLast + 1]
        /\ select_prev(State).ret

\* C6 witness: after a pass that drew two entries the selected node is none
\* of them, and select_prev jumps to the last one, select_next to the first.
C6_Witness ==
    /\ plan.stage = "drawn"
    /\ Len(last_identifiers) >= 2
    /\ last_biggest_index = Len(last_identifiers) - 1
    /\ selected # <<>>
    /\ selected \notin Range(last_identifiers)
    /\ select_prev(State).state.selected = last_identifiers[Len(last_identifiers)]
    /\ select_next(State).state.selected = last_identifiers[1]

\* C7: in every reachable state scroll_up(n) and scroll_down(n) leave the offset
\* in 0..last_biggest_index and return whether the offset changed.
C7_ScrollStaysInRange ==
    \A lines \in ScrollLines :
        LET up == scroll_up(State, lines)
            down == scroll_down(State, lines)
        IN  /\ up.state.offset \in 0..last_biggest_index
            /\ down.state.offset \in 0..last_biggest_index
            /\ up.ret = (up.state.offset # offset)
            /\ down.ret = (down.state.offset # offset)

\* Lemma: scroll_down(n) leaves the offset in 0..last_biggest_index;
\* scroll_up(n) leaves it in 0..the offset before, so in 0..last_biggest_index
\* when it was there before the call; each returns whether the offset changed
\* and changes no other field.
Lemma_ScrollSaturates ==
    \A lines \in ScrollLines :
        LET up == scroll_up(State, lines)
            down == scroll_down(State, lines)
        IN  /\ up.state.offset \in 0..offset
            /\ offset <= last_biggest_index => up.state.offset \in 0..last_biggest_index
            /\ lines <= offset => up.state.offset = offset - lines
            /\ down.state.offset \in 0..last_biggest_index
            /\ (lines <= MaxScroll /\ offset + lines <= last_biggest_index)
                   => down.state.offset = offset + lines
            /\ up.ret = (up.state.offset # offset)
            /\ down.ret = (down.state.offset # offset)
            /\ up.state = [State EXCEPT !.offset = up.state.offset]
            /\ down.state = [State EXCEPT !.offset = down.state.offset]

\* ------------------------------------------------------------------ claims: hit-testing

\* The positions rendered_at is asked about: the cells of the areas and the
\* cells left of, right of, above and below them.
QueryPositions == {[x |-> x, y |-> y] : x \in 0..2, y \in 0..(MaxAreaHeight + 1)}

\* The position lies in the area of the last render pass.
InLastArea(pos) ==
    /\ last_area.x <= pos.x /\ pos.x < last_area.x + last_area.width
    /\ last_area.y <= pos.y /\ pos.y < last_area.y + last_area.height

\* The entries of last_rendered_identifiers that start at or above the row.
StartedBy(y) ==
    {k \in 1..Len(last_rendered_identifiers) : last_rendered_identifiers[k][1] <= y}

\* C11: rendered_at(position) is None outside the last render area; inside it
\* is the Path of an entry of last_rendered_identifiers whose start row is the
\* greatest one not exceeding the row asked for, None when there
\* is no such entry; every row of an item drawn on several rows resolves to
\* that item, and no Path is returned that is not in the cache. (rendered_at
\* takes &self: it has a value and no state after.)
C11_RenderedAtResolvesRow ==
    /\ \A pos \in QueryPositions :
           LET p == rendered_at(State, pos)
               below == StartedBy(pos.y)
           IN  /\ ~InLastArea(pos) => p = <<>>
               /\ (InLastArea(pos) /\ below = {}) => p = <<>>
               /\ (InLastArea(pos) /\ below # {}) =>
                      \E k \in below :
                          /\ last_rendered_identifiers[k][2] = p
                          /\ \A j \in below : last_rendered_identifiers[j][1]
                                                   <= last_rendered_identifiers[k][1]
               /\ p # <<>> => \E k \in 1..Len(last_rendered_identifiers) :
                                  last_rendered_identifiers[k][2] = p
    /\ \A k \in 1..Len(plan.rows) :
           \A y \in plan.rows[k].y..(plan.rows[k].y + plan.rows[k].height - 1) :
               rendered_at(State, [x |-> last_area.x, y |-> y]) = plan.rows[k].identifier

\* C11 witness: the last pass drew two entries, one of them on two rows; both
\* rows resolve to it, and a cell outside the area resolves to nothing.
C11_Witness ==
    /\ plan.stage = "drawn"
    /\ Len(last_rendered_identifiers) = 2
    /\ \E k \in 1..2 :
           /\ plan.rows[k].height = 2
           /\ rendered_at(State, [x |-> last_area.x, y |-> plan.rows[k].y])
                  = plan.rows[k].identifier
           /\ rendered_at(State, [x |-> last_area.x, y |-> plan.rows[k].y + 1])
                  = plan.rows[k].identifier
    /\ \E pos \in QueryPositions : ~InLastArea(pos) /\ StartedBy(pos.y) # {}
                                      /\ rendered_at(State, pos) = <<>>

\* The Paths of the branch nodes the last pass drew (a node with children is
\* drawn with the open or the closed symbol).
DrawnBranches ==
    {plan.rows[k].identifier :
        k \in {j \in 1..Len(plan.rows) : plan.rows[j].symbol # "no_children"}}

\* What click_at does with what rendered_at resolves: toggle_selected when it
\* is the selection, select when it is not, nothing when nothing resolves.
ClickDelegates(pos) ==
    LET p == rendered_at(State, pos)
        c == click_at(State, pos)
    IN  /\ (p # <<>> /\ p = selected) => c = toggle_selected(State)
        /\ (p # <<>> /\ p # selected) => c = select(State, p)
        /\ p = <<>> => (c.ret = FALSE /\ c.state = State)

\* C12 as stated: click_at delegates to toggle_selected / select / nothing, and
\* two clicks in a row on a row of an unselected branch node select it and
\* then expand it.
C12_TwoClicksSelectThenExpand ==
    \A pos \in QueryPositions :
        /\ ClickDelegates(pos)
        /\ LET p == rendered_at(State, pos)
               first == click_at(State, pos)
               second == click_at(first.state, pos)
           IN  (p \in DrawnBranches /\ p # selected) =>
                   /\ first.state.selected = p /\ first.ret
                   /\ first.state.expanded = expanded
                   /\ second.state.selected = p
                   /\ second.state.expanded = expanded \cup {p}
                   /\ p \in second.state.expanded

\* C12, amended: click_at delegates to toggle_selected / select / nothing, and
\* two clicks in a row on a row of an unselected branch node select it and
\* then toggle it: they expand it when it was collapsed and collapse it when
\* it was expanded.
C12_TwoClicksSelectThenToggle ==
    \A pos \in QueryPositions :
        /\ ClickDelegates(pos)
        /\ LET p == rendered_at(State, pos)
               first == click_at(State, pos)
               second == click_at(first.state, pos)
           IN  (p \in DrawnBranches /\ p # selected) =>
                   /\ first.state.selected = p /\ first.ret
                   /\ first.state.expanded = expanded
                   /\ second.state.selected = p /\ second.ret
                   /\ second.state.expanded =
                          IF p \in expanded THEN expanded \ {p} ELSE expanded \cup {p}

\* C12 witness: a drawn branch node that is expanded and not selected; the
\* first click on its row selects it and the second collapses it.
C12_Witness ==
    \E pos \in QueryPositions :
        LET p == rendered_at(State, pos)
            first == click_at(State, pos)
            second == click_at(first.state, pos)
        IN  /\ p \in DrawnBranches
            /\ p # selected
            /\ p \in expanded
            /\ first.state.selected = p
            /\ p \notin second.state.expanded

\* ------------------------------------------------------------------ claims: selection and expansion

\* The state differs from State in at most the fields named by the record d.
OnlyChanges(s, d) == s = [f \in DOMAIN State |-> IF f \in DOMAIN d THEN d[f] ELSE State[f]]

\* C13: select(p), for a Path of a node, of no node and for the empty Path,
\* sets selected to p and the ensure flag to true, also when p is the
\* selection already; it returns true iff p differs from the selection before
\* and leaves expanded, offset and the caches of the last pass as they were.
C13_SelectSetsSelectionAndFlag ==
    \A p \in SelectPaths :
        LET r == select(State, p)
        IN  /\ r.state.selected = p
            /\ r.state.ensure_selected_in_view_on_next_render
            /\ r.ret = (p # selected)
            /\ r.state.expanded = expanded
            /\ r.state.offset = offset
            /\ r.state.last_area = last_area
            /\ r.state.last_biggest_index = last_biggest_index
            /\ r.state.last_identifiers = last_identifiers
            /\ r.state.last_rendered_identifiers = last_rendered_identifiers

\* C13 witness: after a pass cleared the flag, the selection is a Path the
\* pass did not list; selecting it again sets the flag and returns false.
C13_Witness ==
    /\ plan.stage = "drawn"
    /\ ~ensure_selected_in_view_on_next_render
    /\ selected \in SelectPaths \ ({<<>>} \cup Range(last_identifiers))
    /\ ~select(State, selected).ret
    /\ select(State, selected).state.ensure_selected_in_view_on_next_render

\* C14: expand(p) returns true iff p is not empty and was not expanded, and
\* leaves expanded = old \cup {p} for a non-empty p and everything as it was for
\* the empty Path; collapse(p) returns true iff p was expanded and leaves
\* expanded = old \ {p}; and in every state reached from the default state the
\* empty Path is not in expanded.
C14_ExpandCollapseNeverEmptyPath ==
    /\ <<>> \notin expanded
    /\ \A p \in SelectPaths :
           LET e == expand(State, p)
               c == collapse(State, p)
           IN  /\ e.ret = (p # <<>> /\ p \notin expanded)
               /\ p # <<>> => OnlyChanges(e.state, [expanded |-> expanded \cup {p}])
               /\ p = <<>> => e.state = State
               /\ c.ret = (p \in expanded)
               /\ OnlyChanges(c.state, [expanded |-> expanded \ {p}])

\* C14 witness: a node is expanded and nothing is selected; expand of the
\* empty Path and toggle_selected change nothing, expand of the node returns
\* false and collapse of it true.
C14_Witness ==
    /\ <<1>> \in expanded
    /\ selected = <<>>
    /\ expand(State, <<>>).state = State
    /\ toggle_selected(State).state = State
    /\ ~expand(State, <<1>>).ret
    /\ collapse(State, <<1>>).ret

\* C15: toggle(p) of a non-empty p returns true and flips the membership of p,
\* and of p alone, in expanded, so that toggle(p) twice gives the set back;
\* toggle of the empty Path returns false and changes nothing.
C15_ToggleFlipsOnePath ==
    \A p \in SelectPaths :
        LET r == toggle(State, p)
            again == toggle(r.state, p)
        IN  /\ p # <<>> =>
                   /\ r.ret
                   /\ (p \in r.state.expanded) = (p \notin expanded)
                   /\ r.state.expanded \ {p} = expanded \ {p}
                   /\ OnlyChanges(r.state, [expanded |-> r.state.expanded])
                   /\ again.ret
                   /\ again.state = State
            /\ p = <<>> => (~r.ret /\ r.state = State)

\* C15 witness: two Paths are expanded; toggle of one of them collapses it and
\* leaves the other.
C15_Witness ==
    /\ Cardinality(expanded) >= 2
    /\ \E p \in SelectPaths \cap expanded :
           /\ toggle(State, p).state.expanded = expanded \ {p}
           /\ toggle(State, p).state.expanded # {}

\* C16 as stated: toggle_selected returns what toggle(selected) returns and
\* leaves the state toggle(selected) leaves; with nothing selected it returns
\* false and changes no field.
C16_ToggleSelectedIsToggle ==
    /\ toggle_selected(State) = toggle(State, selected)
    /\ selected = <<>> =>
           (~toggle_selected(State).ret /\ toggle_selected(State).state = State)

\* C16, amended: toggle_selected returns what toggle(selected) returns and
\* leaves the expanded set toggle(selected) leaves; when a Path is selected it
\* also sets the ensure flag, which toggle leaves alone, and no other field
\* differs; with nothing selected it returns false and changes no field.
C16_ToggleSelectedIsToggleAndEnsure ==
    LET ts == toggle_selected(State)
        tg == toggle(State, selected)
    IN  /\ ts.ret = tg.ret
        /\ ts.state.expanded = tg.state.expanded
        /\ tg.state.ensure_selected_in_view_on_next_render
               = ensure_selected_in_view_on_next_render
        /\ selected # <<>> =>
               ts.state = [tg.state EXCEPT !.ensure_selected_in_view_on_next_render = TRUE]
        /\ selected = <<>> => (~ts.ret /\ ts.state = State)

\* C16 witness: a Path is selected and a pass has cleared the flag;
\* toggle_selected sets the flag and flips the Path as toggle does.
C16_Witness ==
    /\ plan.stage = "drawn"
    /\ selected # <<>>
    /\ ~ensure_selected_in_view_on_next_render
    /\ toggle_selected(State).state.ensure_selected_in_view_on_next_render
    /\ ~toggle(State, selected).state.ensure_selected_in_view_on_next_render
    /\ toggle_selected(State).state.expanded = toggle(State, selected).state.expanded

\* C17: collapse_all returns true iff expanded was not empty, leaves expanded
\* empty and every other field as it was; a second collapse_all, and a third,
\* return false and change nothing.
C17_CollapseAllIdempotent ==
    LET first == collapse_all(State)
        second == collapse_all(first.state)
        third == collapse_all(second.state)
    IN  /\ first.ret = (expanded # {})
        /\ OnlyChanges(first.state, [expanded |-> {}])
        /\ ~second.ret /\ second.state = first.state
        /\ ~third.ret /\ third.state = first.state

\* C17 witness: two Paths are expanded and collapse_all returns true and
\* empties the set.
C17_Witness ==
    /\ Cardinality(expanded) >= 2
    /\ selected # <<>>
    /\ collapse_all(State).ret
    /\ collapse_all(State).state.expanded = {}

\* select_next called n times.
RECURSIVE select_next_times(_, _)
select_next_times(s, n) ==
    IF n = 0 THEN s ELSE select_next_times(select_next(s).state, n - 1)

\* C18: select_first / select_last select the first / last entry of
\* last_identifiers, the empty Path when it is empty, set the ensure flag and
\* return true iff the selection changed; and after a render pass of a
\* non-empty flattened list select_last selects the entry repeated select_next
\* ends at and stays at.
C18_SelectFirstLast ==
    /\ LET f == select_first(State)
           l == select_last(State)
           n == Len(last_identifiers)
       IN  /\ f.state.selected = IF n = 0 THEN <<>> ELSE last_identifiers[1]
           /\ l.state.selected = IF n = 0 THEN <<>> ELSE last_identifiers[n]
           /\ f.ret = (f.state.selected # selected)
           /\ l.ret = (l.state.selected # selected)
           /\ OnlyChanges(f.state, [selected |-> f.state.selected,
                                    ensure_selected_in_view_on_next_render |-> TRUE])
           /\ OnlyChanges(l.state, [selected |-> l.state.selected,
                                    ensure_selected_in_view_on_next_render |-> TRUE])
    /\ \A tree \in RenderForests, area \in NonZeroAreas :
           LET visible == flatten(expanded, tree, <<>>)
               r == render_ref(tree, area, State)
               ended == select_next_times(r.state, Len(visible) + 1)
           IN  visible # <<>> =>
                   /\ select_last(r.state).state.selected
                          = visible[Len(visible)].identifier
                   /\ ended.selected = select_last(r.state).state.selected
                   /\ select_next(ended).state.selected = ended.selected
                   /\ ~select_next(ended).ret

\* C18 witness: the last pass listed three entries, the first of them is
\* selected, and select_last differs from it and is where select_next ends.
C18_Witness ==
    /\ plan.stage = "drawn"
    /\ Len(last_identifiers) = 3
    /\ last_biggest_index = 2
    /\ selected = last_identifiers[1]
    /\ select_last(State).ret
    /\ select_last(State).state.selected = last_identifiers[3]
    /\ select_next_times(State, 2).selected = last_identifiers[3]
    /\ select_next_times(State, 3).selected = last_identifiers[3]

\* ------------------------------------------------------------------ claims: construction

\* No two items of the sequence have the same identifier.
PairwiseDistinct(its) ==
    \A j, k \in 1..Len(its) : j < k => its[j].identifier # its[k].identifier

\* Sibling identifiers are pairwise distinct in the sequence and below it.
RECURSIVE SiblingsDistinct(_)
SiblingsDistinct(its) ==
    /\ PairwiseDistinct(its)
    /\ \A k \in 1..Len(its) : SiblingsDistinct(its[k].children)

\* C20: in the item built by any sequence of new_leaf, TreeItem::new and
\* add_child calls, and in the forest of any Tree::new, sibling identifiers are
\* pairwise distinct in every children sequence; TreeItem::new and Tree::new
\* fail iff two of the children given share an identifier; add_child fails iff
\* the identifier of the child is among the children already, leaves the
\* children as they were when it fails, and appends the child when it does not.
C20_SiblingsUnique ==
    /\ SiblingsDistinct(<<tree_item>>)
    /\ SiblingsDistinct(forest)
    /\ \A identifier \in Ids, children \in ChildSeqs(tree_item) :
           /\ TreeItem_new(identifier, 1, children).ok = PairwiseDistinct(children)
           /\ Tree_new(children).ok = PairwiseDistinct(children)
           /\ TreeItem_new(identifier, 1, children).ok =>
                  /\ TreeItem_new(identifier, 1, children).item.children = children
                  /\ TreeItem_new(identifier, 1, children).item.identifier = identifier
           /\ Tree_new(children).ok => Tree_new(children).items = children
    /\ \A child \in Candidates(tree_item) :
           LET r == add_child(tree_item, child)
               present == \E k \in 1..Len(tree_item.children) :
                              tree_item.children[k].identifier = child.identifier
           IN  /\ r.ok = ~present
               /\ ~r.ok => r.item = tree_item
               /\ r.ok => /\ r.item.children = Append(tree_item.children, child)
                           /\ r.item.identifier = tree_item.identifier

\* C20 witness: add_child has just failed on an item that has NumIds children,
\* one of them with children of its own.
C20_Witness ==
    /\ item_ret = [op |-> "add_child", result |-> "AlreadyExists"]
    /\ Len(tree_item.children) = NumIds
    /\ ItemDepth(tree_item) = MaxDepth
    /\ forest # <<>>

\* ------------------------------------------------------------------ claims: tree builder

\* A branch node is a node with children.
IsBranch(it) == it.children # <<>>

\* The sort policy on one sibling sequence: every branch node before every
\* leaf node, and nodes of one kind in ascending order of their identifiers.
PolicySorted(its) ==
    \A j, k \in 1..Len(its) :
        j < k =>
            /\ IsBranch(its[k]) => IsBranch(its[j])
            /\ IsBranch(its[j]) = IsBranch(its[k])
                   => cmp_lt(its[j].identifier, its[k].identifier)

\* The policy holds of the sequence and of every children sequence below it.
RECURSIVE SortedEveryLevel(_)
SortedEveryLevel(its) ==
    /\ PolicySorted(its)
    /\ \A k \in 1..Len(its) : SortedEveryLevel(its[k].children)

\* C19: the forest the builder leaves in the Explorer is sorted by the policy
\* at every level, the top level among them: in every sibling sequence branch
\* nodes come before leaf nodes and nodes of one kind ascend by identifier.
C19_SortedAtEveryLevel == SortedEveryLevel(explorer_tree)

\* Lemma: every children sequence below the top level is sorted by the
\* policy, and the top level ascends in the order of the entries' type alone.
Lemma_SortedBelowTopLevel ==
    /\ \A k \in 1..Len(explorer_tree) : SortedEveryLevel(explorer_tree[k].children)
    /\ \A j, k \in 1..Len(explorer_tree) :
           j < k => cmp_lt(explorer_tree[j].identifier, explorer_tree[k].identifier)

\* ------------------------------------------------------------------ building the forest: errors and staleness
\* What a call made now on the Explorer would return.
FailingBatches == {es \in EntryBatches : add_entries(Explorer, es).ret # "Ok"}

\* C21: forest construction is atomic: whenever add_entries or rebuild_tree
\* returns an error, nothing is mutated; the tree and the entry set of the
\* Explorer are both exactly as before the call.
C21_ErrorMutatesNothing ==
    /\ rebuild_tree(Explorer).ret # "Ok" => rebuild_tree(Explorer).state = Explorer
    /\ \A es \in FailingBatches : add_entries(Explorer, es).state = Explorer

\* What does hold of a failed call: the tree is the one before the call, and
\* rebuild_tree leaves the entries alone; add_entries has added its batch.
Lemma_ErrorKeepsTree ==
    /\ rebuild_tree(Explorer).ret # "Ok" => rebuild_tree(Explorer).state = Explorer
    /\ \A es \in FailingBatches :
           /\ add_entries(Explorer, es).state.tree = explorer_tree
           /\ add_entries(Explorer, es).state.entries = entries \cup es

\* The forest built wholesale from the entry set the Explorer holds now.
BuiltFromEntries == rebuild_tree([entries |-> entries, tree |-> <<>>])

\* C22: after every successful add_entry or add_entries the tree of the
\* Explorer equals the forest built wholesale from the current entry set;
\* the tree is never stale between operations.
C22_TreeNeverStale ==
    (rebuild_ret.op \in {"add_entry", "add_entries"} /\ rebuild_ret.result = "Ok")
        => /\ BuiltFromEntries.ret = "Ok"
           /\ BuiltFromEntries.state.tree = explorer_tree

\* What does hold: a successful add_entries or rebuild_tree leaves the tree
\* built from the entries.
Lemma_RebuildLeavesTreeFresh ==
    (rebuild_ret.op \in {"add_entries", "rebuild_tree"} /\ rebuild_ret.result = "Ok")
        => /\ BuiltFromEntries.ret = "Ok"
           /\ BuiltFromEntries.state.tree = explorer_tree

\* ------------------------------------------------------------------ claims: the window and the caches of a pass

\* The summed height of the entries of [start, end), 0-based, of a list.
RECURSIVE WindowHeight(_, _, _)
WindowHeight(visible, start, end) ==
    IF start >= end THEN 0
    ELSE visible[start + 1].item.height + WindowHeight(visible, start + 1, end)

\* C23: every render pass ends with a well-formed window, for every offset,
\* item height (items higher than the area among them) and selection:
\* 0 <= start <= end <= len(visible), no index outside the flattened list is
\* read while the window grows or shrinks, and the summed height of the
\* entries of [start, end) is at most the height of the area.
C23_WindowWellFormed ==
    \A tree \in RenderForests, area \in Areas :
        LET visible == flatten(expanded, tree, <<>>)
            r == render_ref(tree, area, State)
        IN  /\ r.ret.stage # "panic"
            /\ 0 <= r.ret.start
            /\ r.ret.start <= r.ret.end
            /\ r.ret.end <= Len(visible)
            /\ WindowHeight(visible, r.ret.start, r.ret.end) <= area.height

\* C23 witness: a pass has drawn from a list with entries and ended with an
\* empty window past the start of the list, the window having shrunk past an
\* item higher than the area.
C23_Witness ==
    /\ plan.stage = "drawn"
    /\ last_identifiers # <<>>
    /\ plan.start = plan.end
    /\ plan.start > 0
    /\ plan.rows = <<>>

\* The rows a pass recorded are those of the window [start, end) of the
\* list, in order, the first at the top row of the area and each next one at
\* the row of the one before plus its height.
RowsOfWindow(rows, visible, area, start, end) ==
    /\ Len(rows) = end - start
    /\ \A k \in 1..Len(rows) :
           /\ rows[k][2] = visible[start + k].identifier
           /\ rows[k][1] = IF k = 1 THEN area.y
                           ELSE rows[k - 1][1] + visible[start + k - 1].item.height
           /\ k > 1 => rows[k - 1][1] <= rows[k][1]

\* Rect::contains for a row: area.y <= y < area.y + area.height.
RowInside(area, y) == area.y <= y /\ y < area.y + area.height

\* C24: after a render pass in a non-zero area with a non-empty flattened
\* list, last_identifiers is the Paths of the whole flattened list in order,
\* and last_rendered_identifiers lists exactly the entries of the window
\* [start, end) in order, the first at the top row of the area and each next
\* one at the row before plus the height of the entry before, rows
\* non-decreasing and all inside the area.
C24_CachesAreTheFrame ==
    \A tree \in RenderForests, area \in NonZeroAreas :
        LET visible == flatten(expanded, tree, <<>>)
            r == render_ref(tree, area, State)
            rows == r.state.last_rendered_identifiers
        IN  visible # <<>> =>
                /\ r.state.last_identifiers = Identifiers(visible)
                /\ RowsOfWindow(rows, visible, area, r.ret.start, r.ret.end)
                /\ \A k \in 1..Len(rows) : RowInside(area, rows[k][1])

\* What does hold: both caches are those of the frame, and a recorded row
\* lies inside the area when its entry has a height; an entry of height 0 may
\* be recorded at the row below the last row of the area.
Lemma_CachesAreTheFrameUpToBottom ==
    \A tree \in RenderForests, area \in NonZeroAreas :
        LET visible == flatten(expanded, tree, <<>>)
            r == render_ref(tree, area, State)
            rows == r.state.last_rendered_identifiers
        IN  visible # <<>> =>
                /\ r.state.last_identifiers = Identifiers(visible)
                /\ RowsOfWindow(rows, visible, area, r.ret.start, r.ret.end)
                /\ \A k \in 1..Len(rows) :
                       /\ area.y <= rows[k][1]
                       /\ rows[k][1] + visible[r.ret.start + k].item.height
                              <= area.y + area.height
                       /\ visible[r.ret.start + k].item.height > 0
                              => RowInside(area, rows[k][1])

\* ------------------------------------------------------------------ claims: the caches between passes

\* The caches of the last render pass in the ExplorerState s.
Caches(s) ==
    <<s.last_identifiers, s.last_rendered_identifiers, s.last_biggest_index,
      s.last_area>>

\* The states the navigation operations lead to from the current one.
NavigationResults ==
    {select(State, p).state : p \in SelectPaths}
        \cup {expand(State, p).state : p \in ExpandPaths}
        \cup {collapse(State, p).state : p \in ExpandPaths}
        \cup {toggle(State, p).state : p \in ExpandPaths}
        \cup {click_at(State, pos).state : pos \in QueryPositions}
        \cup {scroll_up(State, lines).state : lines \in ScrollLines}
        \cup {scroll_down(State, lines).state : lines \in ScrollLines}
        \cup {toggle_selected(State).state, collapse_all(State).state,
              select_first(State).state, select_last(State).state,
              select_next(State).state, select_prev(State).state,
              scroll_selected_into_view(State).state}

\* The states expand, collapse and collapse_all lead to.
ExpandedChanges ==
    {expand(State, p).state : p \in ExpandPaths}
        \cup {collapse(State, p).state : p \in ExpandPaths}
        \cup {collapse_all(State).state}

\* C25: no navigation operation modifies last_identifiers,
\* last_rendered_identifiers, last_biggest_index or last_area; so after an
\* expand or a collapse with no render pass, select_next, select_prev and
\* rendered_at still answer from the layout of the frame before.
C25_NavigationKeepsCaches ==
    /\ \A s \in NavigationResults : Caches(s) = Caches(State)
    /\ \A s \in ExpandedChanges :
           /\ select_next(s).ret = select_next(State).ret
           /\ select_next(s).state.selected = select_next(State).state.selected
           /\ select_prev(s).ret = select_prev(State).ret
           /\ select_prev(s).state.selected = select_prev(State).state.selected
           /\ \A pos \in QueryPositions : rendered_at(s, pos) = rendered_at(State, pos)

\* C25 witness: a frame drew a child, its parent has been collapsed since with
\* no pass after, and select_next now selects the child, a Path that is no
\* longer visible; the row of the child still resolves to it.
C25_Witness ==
    /\ plan.stage = "drawn"
    /\ expanded = {}
    /\ selected = <<1>>
    /\ select_next(State).ret
    /\ select_next(State).state.selected = <<1, 1>>
    /\ \E pos \in QueryPositions : rendered_at(State, pos) = <<1, 1>>

\* The greatest index select_next and select_prev may choose.
ClampedBound == Min(last_biggest_index, Len(last_identifiers) - 1)

\* The call returned r: true iff the selection differs from the one before,
\* and with false no field of the state has changed.
ReturnsWhetherMoved(r) ==
    /\ r.ret = (r.state.selected # selected)
    /\ ~r.ret => r.state = State

\* C26: select_next and select_prev return true iff selected after the call
\* differs from selected before; the index chosen lies in
\* 0..min(last_biggest_index, len(last_identifiers) - 1); and when they return
\* false (empty cache, or at the clamped boundary already) no field of the
\* state changes, the ensure flag is not set.
C26_NextPrevReturnWhetherMoved ==
    /\ ReturnsWhetherMoved(select_next(State))
    /\ ReturnsWhetherMoved(select_prev(State))
    /\ last_identifiers = <<>> => ~select_next(State).ret /\ ~select_prev(State).ret
    /\ last_identifiers # <<>> =>
           /\ select_next_pos(State) \in 0..ClampedBound
           /\ select_prev_pos(State) \in 0..ClampedBound
           /\ select_next(State).ret =>
                  select_next(State).state.selected
                      = last_identifiers[select_next_pos(State) + 1]
           /\ select_prev(State).ret =>
                  select_prev(State).state.selected
                      = last_identifiers[select_prev_pos(State) + 1]

\* C26 witness: the selection stands at the clamped boundary of a cache of
\* two Paths or more with the ensure flag clear; select_next returns false and
\* select_prev moves.
C26_Witness ==
    /\ Len(last_identifiers) >= 2
    /\ ~ensure_selected_in_view_on_next_render
    /\ selected = last_identifiers[ClampedBound + 1]
    /\ ~select_next(State).ret
    /\ select_next(State).state = State
    /\ select_prev(State).ret

\* ------------------------------------------------------------------ claims: the ensure flag and the window

\* C27: a render pass in a non-zero area with a non-empty flattened list that
\* starts with the ensure flag clear does not move the window start towards
\* the selection: the new offset is min(old offset, len(visible) - 1), also
\* when the selected entry then lies outside [start, end); the same holds when
\* the flag is set and selected is empty or not in the flattened list.
C27_NoEnsureKeepsOffset ==
    \A tree \in RenderForests, area \in NonZeroAreas :
        LET visible == flatten(expanded, tree, <<>>)
            r == render_ref(tree, area, State)
        IN  (/\ visible # <<>>
             /\ \/ ~ensure_selected_in_view_on_next_render
                \/ selected = <<>>
                \/ IndicesOf(visible, selected) = {})
                => /\ r.ret.stage = "drawn"
                   /\ r.ret.start = Min(offset, Len(visible) - 1)
                   /\ r.state.offset = Min(offset, Len(visible) - 1)

\* C27 witness: a pass has drawn a window with rows, and the selected entry of
\* the list lies past its end: the pass did not bring it into view, and the
\* offset is the start of the window.
C27_Witness ==
    /\ plan.stage = "drawn"
    /\ plan.start < plan.end
    /\ offset = plan.start
    /\ ~ensure_selected_in_view_on_next_render
    /\ selected # <<>>
    /\ position(last_identifiers, selected) >= plan.end

\* The passes that return before the window is computed keep the ensure flag
\* and the selection: those in an area without a row or a column, and those
\* whose flattened list is empty.
DegeneratePassesKeepFlag ==
    \A tree \in RenderForests, area \in Areas :
        LET r == render_ref(tree, area, State)
        IN  (area \in ZeroAreas \/ flatten(expanded, tree, <<>>) = <<>>)
                => /\ r.state.ensure_selected_in_view_on_next_render
                   /\ r.state.selected = selected
                   /\ r.state.expanded = expanded

\* C28: a pending scroll-into-view request is not lost by degenerate render
\* passes: with the ensure flag set, every pass in a zero-size area or with an
\* empty flattened list leaves the flag true, and the first pass in a non-zero
\* area with a non-empty flattened list clears it and positions the window
\* for the selection, start <= i < end for the index i of the selected Path.
C28_PendingSurvivesDegeneratePasses ==
    ensure_selected_in_view_on_next_render =>
        /\ DegeneratePassesKeepFlag
        /\ \A tree \in RenderForests, area \in NonZeroAreas :
               LET visible == flatten(expanded, tree, <<>>)
                   r == render_ref(tree, area, State)
               IN  visible # <<>> =>
                       /\ ~r.state.ensure_selected_in_view_on_next_render
                       /\ \A i \in IndicesOf(visible, selected) :
                              r.ret.start <= i /\ i < r.ret.end

\* What does hold: the flag survives the degenerate passes and is cleared by
\* the first pass that computes a window, which holds the selected entry
\* when that entry is not higher than the area.
Lemma_PendingSurvivesAndPositionsIfItFits ==
    ensure_selected_in_view_on_next_render =>
        /\ DegeneratePassesKeepFlag
        /\ \A tree \in RenderForests, area \in NonZeroAreas :
               LET visible == flatten(expanded, tree, <<>>)
                   r == render_ref(tree, area, State)
               IN  visible # <<>> =>
                       /\ ~r.state.ensure_selected_in_view_on_next_render
                       /\ \A i \in IndicesOf(visible, selected) :
                              visible[i + 1].item.height <= area.height
                                  => r.ret.start <= i /\ i < r.ret.end

====
